---- MODULE Spec2Model ----
(***************************************************************************)
(* libco-oop: the coroutine Context (src/src/core/context.cpp,             *)
(* src/include/libco_oop/context.h) as a state machine.                    *)
(*                                                                         *)
(* One thread of control runs user code that constructs Contexts and calls *)
(* their operations.  The CPU is the register file of that thread.  The    *)
(* transfer primitive (context_switch.S, not part of the sources at hand)  *)
(* is modelled from its documented contract: save captures the CPU into a  *)
(* register block, restore loads a block and jumps to its rip, swap does   *)
(* both back to back.                                                      *)
(*                                                                         *)
(* Abstractions.  The six callee-saved general purpose registers           *)
(* (r12..r15, rbx, rbp) are one value, gpr.  A pointer is a natural        *)
(* number, 0 is nullptr.  A code address is a pair: <<"save", c>> is the   *)
(* return address of the primitive's save inside the call c.save(),        *)
(* <<"swap", c>> that of the primitive's swap inside c.swap(..): the       *)
(* wrapper frame, which holds `this`, lives on the stack the snapshot      *)
(* designates, so the address carries it.  <<"entry", e>> is a user        *)
(* function, <<"null", 0>> is nullptr.                                     *)
(***************************************************************************)
EXTENDS Integers, FiniteSets, Sequences, TLC

VARIABLES
    ctx,    \* the Context objects: registers_, config_, is_valid_, switch_count_
    live,   \* the objects constructed so far
    cpu,    \* the register file of the running thread
    pc,     \* "running", or "terminated" (std::terminate), or "crashed"
    last    \* the outcome of the last call: what returned, and the primitive used

vars == <<ctx, live, cpu, pc, last>>

----------------------------------------------------------------------------
(* Bounds of the model *)

NumCtx == 2
MaxSwitch == 1
MaxAddr == 24

Ctx == 1..NumCtx

----------------------------------------------------------------------------
(* Program constants *)

StackAlign == 16
FpucwDefault == 895
MxcsrDefault == 8064

NullPtr == 0
NullIP == <<"null", 0>>
EntryIP == <<"entry", 1>>
RetSave(c) == <<"save", c>>
RetSwap(c) == <<"swap", c>>

ContextMode == {"MINIMAL", "COMPLETE"}

ContextConfig == [mode : ContextMode, save_fpu : BOOLEAN, enable_debugging : BOOLEAN]

DefaultConfig == [mode |-> "COMPLETE", save_fpu |-> TRUE, enable_debugging |-> FALSE]

\* the configurations the unit tests construct Contexts with
TestConfigs ==
    { DefaultConfig,
      [mode |-> "MINIMAL", save_fpu |-> FALSE, enable_debugging |-> TRUE] }

----------------------------------------------------------------------------
(* Alignment utilities *)

libco_oop_is_stack_aligned(sp) == sp % StackAlign = 0

libco_oop_align_stack_pointer(sp) == sp - (sp % StackAlign)

is_stack_aligned(sp) ==
    IF sp = NullPtr THEN FALSE ELSE libco_oop_is_stack_aligned(sp)

\* mutant: the pointer is rounded up to the next multiple of 16
align_stack_pointer_up(sp) ==
    IF sp = NullPtr THEN NullPtr
    ELSE sp + ((StackAlign - (sp % StackAlign)) % StackAlign)

align_stack_pointer(sp) ==
    IF sp = NullPtr THEN NullPtr ELSE libco_oop_align_stack_pointer(sp)

----------------------------------------------------------------------------
(* Register block and Context construction *)

ZeroRegisters ==
    [gpr |-> 0, rip |-> NullIP, rsp |-> NullPtr, fpucw |-> 0, mxcsr |-> 0]

\* mutant: the FPU defaults are written whatever the configuration says
initialize_registers_always_fpu(config) ==
    [ZeroRegisters EXCEPT !.fpucw = FpucwDefault, !.mxcsr = MxcsrDefault]

initialize_registers(config) ==
    IF config.save_fpu
    THEN [ZeroRegisters EXCEPT !.fpucw = FpucwDefault, !.mxcsr = MxcsrDefault]
    ELSE ZeroRegisters

NewContext(config) ==
    [registers_ |-> initialize_registers(config),
     config_ |-> config,
     is_valid_ |-> FALSE,
     switch_count_ |-> 0]

\* the value that stands for an object that is not constructed yet
NoContext == NewContext(DefaultConfig)

----------------------------------------------------------------------------
(* Queries *)

\* mutant: the state is taken to be sound whenever the flag is set
validate_state_flag_only(c) == c.is_valid_

validate_state(c) ==
    IF ~c.is_valid_ THEN FALSE
    ELSE IF c.registers_.rsp = NullPtr THEN FALSE
    ELSE IF ~is_stack_aligned(c.registers_.rsp) THEN FALSE
    ELSE IF c.registers_.rip = NullIP /\ c.switch_count_ > 0 THEN FALSE
    ELSE TRUE

is_valid(c) == c.is_valid_ /\ validate_state(c)

\* mutant: the stack pointer is handed out only by a valid Context
get_stack_pointer_if_valid(c) == IF is_valid(c) THEN c.registers_.rsp ELSE NullPtr

get_stack_pointer(c) == c.registers_.rsp

get_instruction_pointer(c) == c.registers_.rip

get_config(c) == c.config_

get_switch_count(c) == c.switch_count_

----------------------------------------------------------------------------
(* The CPU of the running thread and the transfer primitive *)

\* the register files user code is in between two calls: two places of the
\* program, each with its stack frame
UserStates ==
    {[gpr |-> 1, rsp |-> 16, fpucw |-> FpucwDefault, mxcsr |-> MxcsrDefault],
     [gpr |-> 1, rsp |-> 32, fpucw |-> FpucwDefault, mxcsr |-> MxcsrDefault]}

\* the store half: the caller's registers, stack pointer and return address
context_store(regs, cur, ret, save_fpu) ==
    [gpr |-> cur.gpr, rip |-> ret, rsp |-> cur.rsp,
     fpucw |-> IF save_fpu THEN cur.fpucw ELSE regs.fpucw,
     mxcsr |-> IF save_fpu THEN cur.mxcsr ELSE regs.mxcsr]

\* the load half: the CPU after the block is loaded
context_load(regs, cur, save_fpu) ==
    [gpr |-> regs.gpr, rsp |-> regs.rsp,
     fpucw |-> IF save_fpu THEN regs.fpucw ELSE cur.fpucw,
     mxcsr |-> IF save_fpu THEN regs.mxcsr ELSE cur.mxcsr]

----------------------------------------------------------------------------
(* The outcome of a call: fn and self name the call that control returned   *)
(* from (after a transfer: the call whose capture was resumed), val is the  *)
(* value it returned, other the second Context of a move or a failed swap,  *)
(* prim the primitive that was invoked and fpu the FPU flag it was given.   *)

Outcome(fn, self, other, val, prim, fpu) ==
    [fn |-> fn, self |-> self, other |-> other, val |-> val, prim |-> prim, fpu |-> fpu]

Returned(fn, self, val) == Outcome(fn, self, 0, val, "none", FALSE)

\* the program after a call: the Contexts, the CPU, the thread, the outcome
Result(cs, cur, p, out) == [ctx |-> cs, cpu |-> cur, pc |-> p, out |-> out]

----------------------------------------------------------------------------
(* Where control lands after the load half jumped to address ip: the code   *)
(* after the primitive's call in Context::save resp. Context::swap runs for  *)
(* the Context whose call captured the address.                              *)

\* mutant: the resumed return forgets to count the switch
save_resumed_uncounted(c) == c

\* Context::save after the primitive returned nonzero
save_resumed(c) == [c EXCEPT !.switch_count_ = @ + 1]

\* mutant: the return of swap marks the Context valid but does not count
swap_returned_uncounted(c) == [c EXCEPT !.is_valid_ = TRUE]

\* Context::swap after the primitive returned
swap_returned(c) == [c EXCEPT !.switch_count_ = @ + 1, !.is_valid_ = TRUE]

Land(cs, cur, ip, prim, fpu) ==
    IF ip[1] = "save"
    THEN Result([cs EXCEPT ![ip[2]] = save_resumed(@)], cur, "running",
                Outcome("save", ip[2], 0, TRUE, prim, fpu))
    ELSE IF ip[1] = "swap"
    THEN Result([cs EXCEPT ![ip[2]] = swap_returned(@)], cur, "running",
                Outcome("swap", ip[2], 0, TRUE, prim, fpu))
    ELSE IF ip[1] = "entry"
    THEN Result(cs, cur, "running", Outcome("entry", ip[2], 0, FALSE, prim, fpu))
    ELSE Result(cs, cur, "crashed", Outcome("null", 0, 0, FALSE, prim, fpu))

----------------------------------------------------------------------------
(* Operations of Context, as functions of the Contexts cs and the CPU cur *)

\* Context::Context(const ContextConfig&)
construct(cs, cur, c, config) ==
    Result([cs EXCEPT ![c] = NewContext(config)], cur, "running",
           Returned("construct", c, TRUE))

\* Context::Context(Context&&)
move_construct(cs, cur, d, s) ==
    Result([cs EXCEPT ![d] = cs[s],
                      ![s].is_valid_ = FALSE,
                      ![s].switch_count_ = 0],
           cur, "running", Outcome("move", d, s, TRUE, "none", FALSE))

\* mutant: the move leaves the source's counter as it was
move_assign_keeps_count(cs, cur, d, s) ==
    IF d # s
    THEN Result([cs EXCEPT ![d] = cs[s], ![s].is_valid_ = FALSE],
                cur, "running", Outcome("move", d, s, TRUE, "none", FALSE))
    ELSE Result(cs, cur, "running", Outcome("move", d, s, TRUE, "none", FALSE))

\* Context::operator=(Context&&)
move_assign(cs, cur, d, s) ==
    IF d # s
    THEN Result([cs EXCEPT ![d] = cs[s],
                           ![s].is_valid_ = FALSE,
                           ![s].switch_count_ = 0],
                cur, "running", Outcome("move", d, s, TRUE, "none", FALSE))
    ELSE Result(cs, cur, "running", Outcome("move", d, s, TRUE, "none", FALSE))

\* mutant: the first capture does not mark the Context valid
save_unmarked(cs, cur, c) ==
    LET save_fpu == cs[c].config_.save_fpu
    IN  Result([cs EXCEPT
                  ![c].registers_ = context_store(@, cur, RetSave(c), save_fpu)],
               cur, "running", Outcome("save", c, 0, TRUE, "save", save_fpu))

\* Context::save, the first-capture return (the resumed return is in Land)
save(cs, cur, c) ==
    LET save_fpu == cs[c].config_.save_fpu
    IN  Result([cs EXCEPT
                  ![c].registers_ = context_store(@, cur, RetSave(c), save_fpu),
                  ![c].is_valid_ = TRUE],
               cur, "running", Outcome("save", c, 0, TRUE, "save", save_fpu))

\* mutant: restore trusts the validity flag alone
restore_flag_only(cs, cur, c) ==
    IF ~cs[c].is_valid_
    THEN Result(cs, cur, "terminated", Returned("terminate", c, FALSE))
    ELSE LET regs == cs[c].registers_
             save_fpu == cs[c].config_.save_fpu
         IN  Land(cs, context_load(regs, cur, save_fpu), regs.rip, "restore", save_fpu)

\* Context::restore
restore(cs, cur, c) ==
    IF ~cs[c].is_valid_ \/ ~validate_state(cs[c])
    THEN Result(cs, cur, "terminated", Returned("terminate", c, FALSE))
    ELSE LET regs == cs[c].registers_
             save_fpu == cs[c].config_.save_fpu
         IN  Land(cs, context_load(regs, cur, save_fpu), regs.rip, "restore", save_fpu)

\* mutant: swap captures the caller and returns to it at once, counted
swap_synchronous(cs, cur, a, b) ==
    IF ~validate_state(cs[a]) \/ ~validate_state(cs[b])
    THEN Result(cs, cur, "running", Outcome("swap", a, b, FALSE, "none", FALSE))
    ELSE LET save_fpu == cs[a].config_.save_fpu /\ cs[b].config_.save_fpu
             stored == [cs EXCEPT ![a].registers_ =
                           context_store(@, cur, RetSwap(a), save_fpu)]
         IN  Result([stored EXCEPT ![a] = swap_returned(@)], cur, "running",
                    Outcome("swap", a, 0, TRUE, "swap", save_fpu))

\* mutant: swap passes the primitive the save_fpu of the Context it is called on
swap_own_fpu(cs, cur, a, b) ==
    IF ~validate_state(cs[a]) \/ ~validate_state(cs[b])
    THEN Result(cs, cur, "running", Outcome("swap", a, b, FALSE, "none", FALSE))
    ELSE LET save_fpu == cs[a].config_.save_fpu
             stored == [cs EXCEPT ![a].registers_ =
                           context_store(@, cur, RetSwap(a), save_fpu)]
             to_regs == stored[b].registers_
         IN  Land(stored, context_load(to_regs, cur, save_fpu), to_regs.rip,
                  "swap", save_fpu)

\* mutant: swap validates only the Context it is called on
swap_unchecked_other(cs, cur, a, b) ==
    IF ~validate_state(cs[a])
    THEN Result(cs, cur, "running", Outcome("swap", a, b, FALSE, "none", FALSE))
    ELSE LET save_fpu == cs[a].config_.save_fpu /\ cs[b].config_.save_fpu
             stored == [cs EXCEPT ![a].registers_ =
                           context_store(@, cur, RetSwap(a), save_fpu)]
             to_regs == stored[b].registers_
         IN  Land(stored, context_load(to_regs, cur, save_fpu), to_regs.rip,
                  "swap", save_fpu)

\* mutant: swap reads the target's block before it stores the caller's state
swap_load_before_store(cs, cur, a, b) ==
    IF ~validate_state(cs[a]) \/ ~validate_state(cs[b])
    THEN Result(cs, cur, "running", Outcome("swap", a, b, FALSE, "none", FALSE))
    ELSE LET save_fpu == cs[a].config_.save_fpu /\ cs[b].config_.save_fpu
             stored == [cs EXCEPT ![a].registers_ =
                           context_store(@, cur, RetSwap(a), save_fpu)]
             to_regs == cs[b].registers_
         IN  Land(stored, context_load(to_regs, cur, save_fpu), to_regs.rip,
                  "swap", save_fpu)

\* Context::swap
swap(cs, cur, a, b) ==
    IF ~validate_state(cs[a]) \/ ~validate_state(cs[b])
    THEN Result(cs, cur, "running", Outcome("swap", a, b, FALSE, "none", FALSE))
    ELSE LET save_fpu == cs[a].config_.save_fpu /\ cs[b].config_.save_fpu
             stored == [cs EXCEPT ![a].registers_ =
                           context_store(@, cur, RetSwap(a), save_fpu)]
             to_regs == stored[b].registers_
         IN  Land(stored, context_load(to_regs, cur, save_fpu), to_regs.rip,
                  "swap", save_fpu)

\* mutant: a Context with enable_debugging set keeps its state on reset
reset_unless_debugging(cs, cur, c) ==
    IF cs[c].config_.enable_debugging
    THEN Result(cs, cur, "running", Returned("reset", c, TRUE))
    ELSE Result([cs EXCEPT ![c].registers_ = initialize_registers(cs[c].config_),
                           ![c].is_valid_ = FALSE,
                           ![c].switch_count_ = 0],
                cur, "running", Returned("reset", c, TRUE))

\* mutant: reset clears the block and the flag but not the counter
reset_keeps_count(cs, cur, c) ==
    Result([cs EXCEPT ![c].registers_ = initialize_registers(cs[c].config_),
                      ![c].is_valid_ = FALSE],
           cur, "running", Returned("reset", c, TRUE))

\* Context::reset
reset(cs, cur, c) ==
    Result([cs EXCEPT ![c].registers_ = initialize_registers(cs[c].config_),
                      ![c].is_valid_ = FALSE,
                      ![c].switch_count_ = 0],
           cur, "running", Returned("reset", c, TRUE))

\* mutant: the stack pointer is stored as given, misaligned or not
set_stack_pointer_as_given(cs, cur, c, sp) ==
    IF sp = NullPtr
    THEN Result(cs, cur, "running", Returned("set_stack_pointer", c, FALSE))
    ELSE Result([cs EXCEPT
                   ![c].registers_.rsp = sp,
                   ![c].is_valid_ =
                       IF ~cs[c].is_valid_
                       THEN cs[c].registers_.rip # NullIP
                       ELSE @],
                cur, "running", Returned("set_stack_pointer", c, TRUE))

\* Context::set_stack_pointer
set_stack_pointer(cs, cur, c, sp) ==
    IF sp = NullPtr
    THEN Result(cs, cur, "running", Returned("set_stack_pointer", c, FALSE))
    ELSE LET al == IF ~is_stack_aligned(sp) THEN align_stack_pointer(sp) ELSE sp
         IN  Result([cs EXCEPT
                       ![c].registers_.rsp = al,
                       ![c].is_valid_ =
                           IF ~cs[c].is_valid_
                           THEN cs[c].registers_.rip # NullIP
                           ELSE @],
                    cur, "running", Returned("set_stack_pointer", c, TRUE))

\* mutant: the instruction pointer is stored without the null check
set_instruction_pointer_unchecked(cs, cur, c, ip) ==
    Result([cs EXCEPT
              ![c].registers_.rip = ip,
              ![c].is_valid_ =
                  IF ~cs[c].is_valid_
                  THEN cs[c].registers_.rsp # NullPtr
                  ELSE @],
           cur, "running", Returned("set_instruction_pointer", c, TRUE))

\* mutant: a null instruction pointer is refused but stored all the same
set_instruction_pointer_clears(cs, cur, c, ip) ==
    Result([cs EXCEPT ![c].registers_.rip = ip], cur, "running",
           Returned("set_instruction_pointer", c, ip # NullIP))

\* Context::set_instruction_pointer
set_instruction_pointer(cs, cur, c, ip) ==
    IF ip = NullIP
    THEN Result(cs, cur, "running", Returned("set_instruction_pointer", c, FALSE))
    ELSE Result([cs EXCEPT
                   ![c].registers_.rip = ip,
                   ![c].is_valid_ =
                       IF ~cs[c].is_valid_
                       THEN cs[c].registers_.rsp # NullPtr
                       ELSE @],
                cur, "running", Returned("set_instruction_pointer", c, TRUE))

----------------------------------------------------------------------------
(* The state machine: user code makes one call after the other *)

Init ==
    /\ ctx = [c \in Ctx |-> NoContext]
    /\ live = {}
    /\ cpu \in UserStates
    /\ pc = "running"
    /\ last = Returned("start", 0, FALSE)

\* the call whose result is r is made, unless it takes a counter past MaxSwitch
Apply(r) ==
    /\ pc = "running"
    /\ \A c \in Ctx : r.ctx[c].switch_count_ <= MaxSwitch
    /\ ctx' = r.ctx
    /\ cpu' = r.cpu
    /\ pc' = r.pc
    /\ last' = r.out

Construct(c, config) ==
    /\ c \notin live
    /\ Apply(construct(ctx, cpu, c, config))
    /\ live' = live \cup {c}

MoveConstruct(d, s) ==
    /\ d \notin live
    /\ s \in live
    /\ Apply(move_construct(ctx, cpu, d, s))
    /\ live' = live \cup {d}

MoveAssign(d, s) ==
    /\ d \in live
    /\ s \in live
    /\ Apply(move_assign(ctx, cpu, d, s))
    /\ UNCHANGED live

Save(c) ==
    /\ c \in live
    /\ Apply(save(ctx, cpu, c))
    /\ UNCHANGED live

Restore(c) ==
    /\ c \in live
    /\ Apply(restore(ctx, cpu, c))
    /\ UNCHANGED live

Swap(a, b) ==
    /\ a \in live
    /\ b \in live
    /\ Apply(swap(ctx, cpu, a, b))
    /\ UNCHANGED live

Reset(c) ==
    /\ c \in live
    /\ Apply(reset(ctx, cpu, c))
    /\ UNCHANGED live

SetStackPointer(c, sp) ==
    /\ c \in live
    /\ Apply(set_stack_pointer(ctx, cpu, c, sp))
    /\ UNCHANGED live

SetInstructionPointer(c, ip) ==
    /\ c \in live
    /\ Apply(set_instruction_pointer(ctx, cpu, c, ip))
    /\ UNCHANGED live

\* user code between two calls: it calls and returns
Run(n) ==
    /\ pc = "running"
    /\ n # cpu
    /\ cpu' = n
    /\ last' = Returned("run", 0, FALSE)
    /\ UNCHANGED <<ctx, live, pc>>

\* the pointers user code passes to the setters
StackArgs == {p \in 0..MaxAddr : p % 8 = 0}
IpArgs == {NullIP, EntryIP}

Next ==
    \/ \E c \in Ctx, config \in TestConfigs : Construct(c, config)
    \/ \E d, s \in Ctx : MoveConstruct(d, s)
    \/ \E d, s \in Ctx : MoveAssign(d, s)
    \/ \E c \in Ctx : Save(c)
    \/ \E c \in Ctx : Restore(c)
    \/ \E a, b \in Ctx : Swap(a, b)
    \/ \E c \in Ctx : Reset(c)
    \/ \E c \in Ctx, sp \in StackArgs : SetStackPointer(c, sp)
    \/ \E c \in Ctx, ip \in IpArgs : SetInstructionPointer(c, ip)
    \/ \E n \in UserStates : Run(n)

Spec == Init /\ [][Next]_vars

----------------------------------------------------------------------------
(* Properties.  A property of a call is stated of the call's result in every *)
(* reachable state in which user code can make the call.                     *)

Running == pc = "running"

\* C1: a.swap(b) with a or b invalid returns false, does not invoke the
\* transfer primitive, and leaves every Context and the CPU as they were.
C1_SwapInvalidNoEffect ==
    Running =>
        \A a, b \in live :
            (~is_valid(ctx[a]) \/ ~is_valid(ctx[b])) =>
                LET r == swap(ctx, cpu, a, b)
                IN  /\ r.out.fn = "swap" /\ r.out.self = a /\ r.out.val = FALSE
                    /\ r.out.prim = "none"
                    /\ r.ctx[a] = ctx[a] /\ r.ctx[b] = ctx[b]
                    /\ r.cpu = cpu
                    /\ r.pc = "running"

\* an invalid Context was swapped with a valid one, and false came back
C1_Witness ==
    /\ last.fn = "swap" /\ last.val = FALSE /\ last.other # 0
    /\ ~is_valid(ctx[last.self])
    /\ is_valid(ctx[last.other])

\* C2: restore() on a Context that is not valid terminates the process: the
\* primitive is not invoked, control goes nowhere, nothing is modified.
C2_RestoreInvalidTerminates ==
    Running =>
        \A c \in live :
            ~is_valid(ctx[c]) =>
                LET r == restore(ctx, cpu, c)
                IN  /\ r.pc = "terminated"
                    /\ r.out.fn = "terminate" /\ r.out.prim = "none"
                    /\ r.ctx = ctx
                    /\ r.cpu = cpu

\* the process terminated in restore() on a Context whose flag is set but
\* whose stack pointer is null
C2_Witness ==
    /\ pc = "terminated" /\ last.fn = "terminate"
    /\ ctx[last.self].is_valid_
    /\ ctx[last.self].registers_.rsp = NullPtr

\* the snapshot c holds was captured by a call c.save()
CapturedBySave(c) == ctx[c].registers_.rip = RetSave(c)

\* C3: restore() on a valid Context c whose snapshot was captured by c.save()
\* does not return to its caller: control comes back out of that c.save()
\* call, which returns true, with c's counter one higher, c still valid and
\* its snapshot intact (so it can be restored again).
C3_RestoreResumesSave ==
    Running =>
        \A c \in live :
            (is_valid(ctx[c]) /\ CapturedBySave(c)) =>
                LET r == restore(ctx, cpu, c)
                IN  /\ r.pc = "running"
                    /\ r.out.fn = "save" /\ r.out.self = c /\ r.out.val = TRUE
                    /\ r.out.prim = "restore"
                    /\ r.ctx[c].switch_count_ = ctx[c].switch_count_ + 1
                    /\ is_valid(r.ctx[c])
                    /\ r.ctx[c].registers_ = ctx[c].registers_
                    /\ r.cpu.rsp = ctx[c].registers_.rsp
                    /\ r.cpu.gpr = ctx[c].registers_.gpr

\* c.save() returned a second time, out of a restore, with c's counter at 1
C3_Witness ==
    /\ last.fn = "save" /\ last.prim = "restore" /\ last.val = TRUE
    /\ CapturedBySave(last.self)
    /\ ctx[last.self].switch_count_ = 1
    /\ is_valid(ctx[last.self])

\* the calls by which the path that runs after a.swap(b) can transfer back
\* into a: b.swap(a), or a.restore(), from any place n of that path
BackInto(cs, a, b) ==
    {swap(cs, n, b, a) : n \in UserStates} \cup {restore(cs, n, a) : n \in UserStates}

\* C4: swap round trip.  a and b valid, a.swap(b) is called, and the path that
\* then runs transfers back into a: the a.swap(b) call returns true, its
\* caller sees the callee-saved registers and the stack pointer it had at the
\* call, a is valid and a's counter is one higher than at the call.
C4_SwapRoundTrip ==
    Running =>
        \A a, b \in live :
            (a # b /\ is_valid(ctx[a]) /\ is_valid(ctx[b])) =>
                LET away == swap(ctx, cpu, a, b)
                IN  \A back \in BackInto(away.ctx, a, b) :
                        /\ back.out.fn = "swap" /\ back.out.self = a
                        /\ back.out.val = TRUE
                        /\ back.cpu.gpr = cpu.gpr
                        /\ back.cpu.rsp = cpu.rsp
                        /\ is_valid(back.ctx[a])
                        /\ back.ctx[a].switch_count_ = ctx[a].switch_count_ + 1

\* C5: the first-capture return of save(): true is returned, the Context is
\* valid, its stack pointer is non-null and aligned, its instruction pointer
\* is non-null, its configuration and its counter are as before the call.
C5_SaveFirstCapture ==
    Running =>
        \A c \in live :
            LET r == save(ctx, cpu, c)
            IN  /\ r.out.fn = "save" /\ r.out.self = c /\ r.out.val = TRUE
                /\ is_valid(r.ctx[c])
                /\ get_stack_pointer(r.ctx[c]) # NullPtr
                /\ get_stack_pointer(r.ctx[c]) % StackAlign = 0
                /\ get_instruction_pointer(r.ctx[c]) # NullIP
                /\ get_config(r.ctx[c]) = get_config(ctx[c])
                /\ get_switch_count(r.ctx[c]) = get_switch_count(ctx[c])

\* save() captured into a Context that had been invalid: it is valid now,
\* with the CPU's stack pointer in it and a counter of 0
C5_Witness ==
    /\ last.fn = "save" /\ last.prim = "save" /\ last.val = TRUE
    /\ is_valid(ctx[last.self])
    /\ ctx[last.self].registers_.rsp = cpu.rsp
    /\ ctx[last.self].switch_count_ = 0
    /\ ~ctx[last.self].config_.save_fpu

\* C6: a Context constructed with any configuration is invalid, has counter 0
\* and null pointers, a register block that is zero but for the FPU defaults,
\* which are there exactly when save_fpu is set, and the configuration it was
\* given; the Contexts that exist already are not affected.
C6_FreshContext ==
    Running =>
        \A c \in Ctx \ live : \A config \in ContextConfig :
            LET r == construct(ctx, cpu, c, config)
                n == r.ctx[c]
            IN  /\ ~is_valid(n)
                /\ get_switch_count(n) = 0
                /\ get_stack_pointer(n) = NullPtr
                /\ get_instruction_pointer(n) = NullIP
                /\ n.registers_.gpr = 0
                /\ n.registers_.fpucw = (IF config.save_fpu THEN FpucwDefault ELSE 0)
                /\ n.registers_.mxcsr = (IF config.save_fpu THEN MxcsrDefault ELSE 0)
                /\ get_config(n) = config
                /\ \A o \in live : r.ctx[o] = ctx[o]

\* a second Context was constructed, without FPU state, beside a valid one
C6_Witness ==
    /\ last.fn = "construct"
    /\ ~ctx[last.self].config_.save_fpu
    /\ ctx[last.self].registers_.fpucw = 0
    /\ \E o \in live : o # last.self /\ is_valid(ctx[o])

\* C7: reset() leaves a Context as one freshly constructed with the same
\* configuration: invalid, counter 0, null pointers, zero block with the FPU
\* defaults iff save_fpu; a second reset() changes nothing more.
C7_ResetIsFresh ==
    Running =>
        \A c \in live :
            LET r == reset(ctx, cpu, c)
            IN  /\ r.ctx[c] = NewContext(ctx[c].config_)
                /\ ~is_valid(r.ctx[c])
                /\ get_switch_count(r.ctx[c]) = 0
                /\ get_stack_pointer(r.ctx[c]) = NullPtr
                /\ get_instruction_pointer(r.ctx[c]) = NullIP
                /\ get_config(r.ctx[c]) = get_config(ctx[c])
                /\ reset(r.ctx, r.cpu, c).ctx = r.ctx

\* reset() was called on a Context that had been switched to, and the other
\* Context still holds a snapshot
C7_Witness ==
    /\ last.fn = "reset"
    /\ ctx[last.self] = NewContext(ctx[last.self].config_)
    /\ \E o \in live : o # last.self /\ ctx[o].switch_count_ > 0

\* C8: is_valid() is true exactly when the flag is set, the stack pointer is
\* non-null and 16-byte aligned, and the instruction pointer is non-null once
\* the counter is above 0.
C8_ValidMeansSound ==
    \A c \in live :
        is_valid(ctx[c]) <=>
            /\ ctx[c].is_valid_
            /\ ctx[c].registers_.rsp # NullPtr
            /\ ctx[c].registers_.rsp % StackAlign = 0
            /\ (ctx[c].switch_count_ > 0 => ctx[c].registers_.rip # NullIP)

\* a Context whose flag is set and that is_valid() rejects, beside one that
\* is valid with a counter above 0
C8_Witness ==
    \E c, d \in live :
        /\ ctx[c].is_valid_ /\ ~is_valid(ctx[c])
        /\ is_valid(ctx[d]) /\ ctx[d].switch_count_ > 0

\* C9: a move from s into another Context d gives d the register block, the
\* validity and the counter s had, and leaves s invalid with counter 0; a
\* move assignment of a Context to itself changes nothing.
C9_MoveTransfers ==
    Running =>
        \A s \in live : \A d \in Ctx :
            LET r == IF d \in live
                     THEN move_assign(ctx, cpu, d, s)
                     ELSE move_construct(ctx, cpu, d, s)
            IN  IF d = s
                THEN r.ctx = ctx
                ELSE /\ r.ctx[d].registers_ = ctx[s].registers_
                     /\ r.ctx[d].is_valid_ = ctx[s].is_valid_
                     /\ is_valid(r.ctx[d]) = is_valid(ctx[s])
                     /\ get_switch_count(r.ctx[d]) = get_switch_count(ctx[s])
                     /\ ~is_valid(r.ctx[s])
                     /\ get_switch_count(r.ctx[s]) = 0

\* a valid Context with a counter above 0 was moved into another Context
C9_Witness ==
    /\ last.fn = "move" /\ last.self # last.other
    /\ is_valid(ctx[last.self])
    /\ ctx[last.self].switch_count_ > 0
    /\ ~is_valid(ctx[last.other])
    /\ ctx[last.other].switch_count_ = 0

\* C10: a Context that has just been moved from is invalid, and neither one
\* call of a pointer setter on it nor a restore or swap on the destination
\* of the move makes it valid again.
C10_MovedFromStaysInvalid ==
    (Running /\ last.fn = "move" /\ last.self # last.other) =>
        LET s == last.other
            d == last.self
        IN  /\ ~is_valid(ctx[s])
            /\ \A sp \in StackArgs :
                   ~is_valid(set_stack_pointer(ctx, cpu, s, sp).ctx[s])
            /\ \A ip \in IpArgs :
                   ~is_valid(set_instruction_pointer(ctx, cpu, s, ip).ctx[s])
            /\ ~is_valid(restore(ctx, cpu, d).ctx[s])
            /\ \A a \in live : ~is_valid(swap(ctx, cpu, a, d).ctx[s])

----------------------------------------------------------------------------
(* The calls user code can make in a state, as the set of their results *)

\* the calls made on Context a: its member functions, a the assigned-to
\* object of a move assignment
CallsOn(a) ==
    {save(ctx, cpu, a), restore(ctx, cpu, a), reset(ctx, cpu, a)}
        \cup {set_stack_pointer(ctx, cpu, a, sp) : sp \in StackArgs}
        \cup {set_instruction_pointer(ctx, cpu, a, ip) : ip \in IpArgs}
        \cup {swap(ctx, cpu, a, b) : b \in live}
        \cup {move_assign(ctx, cpu, a, s) : s \in live}

\* every call: those on a constructed Context, and the constructions
AnyCall ==
    UNION {CallsOn(a) : a \in live}
        \cup {construct(ctx, cpu, c, config) : c \in Ctx \ live, config \in TestConfigs}
        \cup UNION {{move_construct(ctx, cpu, d, s) : d \in Ctx \ live} : s \in live}

\* the transfers into Context t: t.restore(), and a.swap(t) for a valid a
TransfersInto(t) ==
    {restore(ctx, cpu, t)} \cup
    {swap(ctx, cpu, a, t) : a \in {x \in live : is_valid(ctx[x])}}

\* C11: when a valid Context t is the target of a transfer, t's own counter
\* rises by exactly 1 and t stays valid, however t came by its snapshot, and
\* no other Context's counter or validity changes.
C11_TargetCounts ==
    Running =>
        \A t \in live :
            is_valid(ctx[t]) =>
                \A r \in TransfersInto(t) :
                    /\ get_switch_count(r.ctx[t]) = get_switch_count(ctx[t]) + 1
                    /\ is_valid(r.ctx[t])
                    /\ \A o \in live \ {t} :
                           /\ get_switch_count(r.ctx[o]) = get_switch_count(ctx[o])
                           /\ is_valid(r.ctx[o]) = is_valid(ctx[o])

\* Context c holds the capture of its own save() and was not switched to yet
FreshlySaved(c) ==
    /\ is_valid(ctx[c])
    /\ CapturedBySave(c)
    /\ get_switch_count(ctx[c]) = 0

\* C12 as stated: with x and y both freshly saved, x.swap(y) returns true to
\* its caller and x's counter is 1 afterwards.
C12_SwapReturnsTrue ==
    Running =>
        \A x, y \in live :
            (x # y /\ FreshlySaved(x) /\ FreshlySaved(y)) =>
                LET r == swap(ctx, cpu, x, y)
                IN  /\ r.out.fn = "swap" /\ r.out.self = x /\ r.out.val = TRUE
                    /\ get_switch_count(r.ctx[x]) = 1

\* C12, amended: with x and y both freshly saved, x.swap(y) captures the
\* caller into x and does not return to it: control comes out of the y.save()
\* call, which returns true again; afterwards y's counter is 1 and x's is
\* still 0, both are valid, and x holds the capture of the swap call, which
\* returns only when something transfers back into x.
C12_SwapResumesSave ==
    Running =>
        \A x, y \in live :
            (x # y /\ FreshlySaved(x) /\ FreshlySaved(y)) =>
                LET r == swap(ctx, cpu, x, y)
                IN  /\ r.pc = "running"
                    /\ r.out.fn = "save" /\ r.out.self = y /\ r.out.val = TRUE
                    /\ r.out.prim = "swap"
                    /\ get_switch_count(r.ctx[y]) = 1
                    /\ get_switch_count(r.ctx[x]) = 0
                    /\ is_valid(r.ctx[x]) /\ is_valid(r.ctx[y])
                    /\ get_instruction_pointer(r.ctx[x]) = RetSwap(x)
                    /\ r.ctx[y].registers_ = ctx[y].registers_

\* y.save() returned a second time, out of x.swap(y): y's counter is 1, and x
\* holds the capture of its swap call with a counter of 0
C12_Witness ==
    /\ last.fn = "save" /\ last.prim = "swap" /\ last.val = TRUE
    /\ CapturedBySave(last.self)
    /\ get_switch_count(ctx[last.self]) = 1
    /\ \E x \in live \ {last.self} :
           /\ get_instruction_pointer(ctx[x]) = RetSwap(x)
           /\ get_switch_count(ctx[x]) = 0
           /\ is_valid(ctx[x])

\* Context c is as constructed: fresh, or just reset
Unseeded(c) == ctx[c] = NewContext(get_config(ctx[c]))

\* the non-null pointers user code can pass
NonNullStack == 1..MaxAddr
NonNullIp == IpArgs \ {NullIP}

\* C13: seeding.  On an invalid Context without pointers, set_stack_pointer(p)
\* and set_instruction_pointer(q) with any non-null p and q, in either order,
\* make it valid with counter 0 and instruction pointer q; one setter alone
\* leaves it invalid.
C13_SeedingMakesValid ==
    Running =>
        \A c \in live :
            Unseeded(c) =>
                \A p \in NonNullStack, q \in NonNullIp :
                    LET sp == set_stack_pointer(ctx, cpu, c, p)
                        ip == set_instruction_pointer(ctx, cpu, c, q)
                        sp_ip == set_instruction_pointer(sp.ctx, sp.cpu, c, q)
                        ip_sp == set_stack_pointer(ip.ctx, ip.cpu, c, p)
                    IN  /\ ~is_valid(sp.ctx[c])
                        /\ ~is_valid(ip.ctx[c])
                        /\ is_valid(sp_ip.ctx[c]) /\ is_valid(ip_sp.ctx[c])
                        /\ get_switch_count(sp_ip.ctx[c]) = 0
                        /\ get_switch_count(ip_sp.ctx[c]) = 0
                        /\ get_instruction_pointer(sp_ip.ctx[c]) = q
                        /\ get_instruction_pointer(ip_sp.ctx[c]) = q

\* C14: set_stack_pointer(nullptr) and set_instruction_pointer(nullptr) return
\* false and leave the Context's register block, flag and counter as they
\* were, in every state of the Context; with a non-null argument both return
\* true.
C14_SettersRejectNull ==
    Running =>
        \A c \in live :
            LET sp == set_stack_pointer(ctx, cpu, c, NullPtr)
                ip == set_instruction_pointer(ctx, cpu, c, NullIP)
            IN  /\ sp.out.fn = "set_stack_pointer" /\ sp.out.val = FALSE
                /\ sp.ctx = ctx /\ sp.cpu = cpu /\ sp.pc = "running"
                /\ ip.out.fn = "set_instruction_pointer" /\ ip.out.val = FALSE
                /\ ip.ctx = ctx /\ ip.cpu = cpu /\ ip.pc = "running"
                /\ \A p \in NonNullStack :
                       set_stack_pointer(ctx, cpu, c, p).out.val = TRUE
                /\ \A q \in NonNullIp :
                       set_instruction_pointer(ctx, cpu, c, q).out.val = TRUE

\* set_instruction_pointer(nullptr) returned false on a valid Context that
\* had been switched to, and its snapshot is still there
C14_Witness ==
    /\ last.fn = "set_instruction_pointer" /\ last.val = FALSE
    /\ is_valid(ctx[last.self])
    /\ get_switch_count(ctx[last.self]) > 0
    /\ get_instruction_pointer(ctx[last.self]) # NullIP

C16_ConfigImmutable ==
    Running =>
        \A r \in AnyCall : \A c \in live :
            get_config(r.ctx[c]) = get_config(ctx[c])

\* C17: a successful a.swap(b) invokes the primitive's swap with an FPU flag
\* that is the AND of a's and b's save_fpu; a.save() and a.restore() invoke
\* the primitive's save resp. restore with a's own save_fpu.
C17_FpuPolicy ==
    Running =>
        /\ \A a, b \in live :
               (is_valid(ctx[a]) /\ is_valid(ctx[b])) =>
                   LET r == swap(ctx, cpu, a, b)
                   IN  /\ r.out.prim = "swap"
                       /\ r.out.fpu = (get_config(ctx[a]).save_fpu
                                           /\ get_config(ctx[b]).save_fpu)
        /\ \A a \in live :
               LET r == save(ctx, cpu, a)
               IN  /\ r.out.prim = "save"
                   /\ r.out.fpu = get_config(ctx[a]).save_fpu
        /\ \A a \in live :
               is_valid(ctx[a]) =>
                   LET r == restore(ctx, cpu, a)
                   IN  /\ r.out.prim = "restore"
                       /\ r.out.fpu = get_config(ctx[a]).save_fpu

\* a swap was made without FPU state into a snapshot of a Context that has
\* save_fpu set: the Context swapped from has it clear
C17_Witness ==
    /\ last.prim = "swap" /\ ~last.fpu
    /\ last.fn = "save"
    /\ get_config(ctx[last.self]).save_fpu
    /\ \E a \in live : /\ ~get_config(ctx[a]).save_fpu
                        /\ get_instruction_pointer(ctx[a]) = RetSwap(a)

\* the calls made on Context a, and the constructions, that are not a swap
\* naming b, or that are a swap naming b that fails, and no move from b
CallsAsideFrom(a, b) ==
    {save(ctx, cpu, a), restore(ctx, cpu, a), reset(ctx, cpu, a)}
        \cup {set_stack_pointer(ctx, cpu, a, sp) : sp \in StackArgs}
        \cup {set_instruction_pointer(ctx, cpu, a, ip) : ip \in IpArgs}
        \cup {swap(ctx, cpu, a, x) : x \in live \ {b}}
        \cup {swap(ctx, cpu, a, x) :
                 x \in {y \in {b} : ~is_valid(ctx[a]) \/ ~is_valid(ctx[b])}}
        \cup {move_assign(ctx, cpu, a, s) : s \in live \ {b}}
        \cup {construct(ctx, cpu, c, config) : c \in Ctx \ live, config \in TestConfigs}
        \cup UNION {{move_construct(ctx, cpu, d, s) : d \in Ctx \ live} : s \in live \ {b}}

\* C18: Contexts share no state: a call on Context a that is not a swap naming
\* b (a construction, save, restore, reset, a pointer setter, a failed swap, a
\* move that does not involve b) leaves b's register block, flag, counter and
\* configuration as they were.
C18_NoSharedState ==
    Running =>
        \A a, b \in live :
            a # b => \A r \in CallsAsideFrom(a, b) : r.ctx[b] = ctx[b]

\* the call whose result is r came back out of a c.save() or c.swap() call
\* that a transfer resumed
ResumedIn(r, c) ==
    /\ r.out.prim \in {"restore", "swap"}
    /\ r.out.fn \in {"save", "swap"}
    /\ r.out.self = c

\* C19: the switch counter only grows.  A call sets the counter of a Context
\* to 0 when it resets it or moves from it, and to the source's value when it
\* moves into it; it raises it by exactly 1 when it resumes a return of the
\* Context's save() or swap(); every other call (a first-capture save(), a
\* failed swap, a pointer setter, a transfer that resumes elsewhere) leaves it
\* as it was.
C19_CounterMonotone ==
    Running =>
        \A r \in AnyCall : \A c \in live :
            LET was == get_switch_count(ctx[c])
                now == get_switch_count(r.ctx[c])
            IN  CASE r.out.fn = "reset" /\ r.out.self = c -> now = 0
                  [] r.out.fn = "move" /\ r.out.self = c ->
                         now = get_switch_count(ctx[r.out.other])
                  [] r.out.fn = "move" /\ r.out.other = c -> now = 0
                  [] ResumedIn(r, c) -> now = was + 1
                  [] OTHER -> now = was

\* a swap() call returned, resumed by a restore, and the counter of its
\* Context went to 1 while the other Context's is 0
C19_Witness ==
    /\ last.fn = "swap" /\ last.prim = "restore" /\ last.val = TRUE
    /\ get_switch_count(ctx[last.self]) = 1
    /\ \E o \in live \ {last.self} : get_switch_count(ctx[o]) = 0

OtherMode(cs, c) ==
    [cs EXCEPT ![c].config_.mode = IF @ = "MINIMAL" THEN "COMPLETE" ELSE "MINIMAL"]

\* what the primitive is invoked with, and what it left in c's block
Invocation(r, c) == <<r.out.prim, r.out.fpu, r.ctx[c].registers_>>

\* C21: the mode selects the register subset the primitive is asked to
\* preserve: save, restore and swap invoke the primitive differently for a
\* Minimal-mode Context than for the same Context in Complete mode.
C21_ModeSelectsRegisters ==
    Running =>
        \A c \in live :
            /\ Invocation(save(ctx, cpu, c), c)
                   # Invocation(save(OtherMode(ctx, c), cpu, c), c)
            /\ is_valid(ctx[c]) =>
                   /\ Invocation(restore(ctx, cpu, c), c)
                          # Invocation(restore(OtherMode(ctx, c), cpu, c), c)
                   /\ Invocation(swap(ctx, cpu, c, c), c)
                          # Invocation(swap(OtherMode(ctx, c), cpu, c, c), c)

\* the Contexts cs without their enable_debugging settings
EraseDebug(cs) == [c \in Ctx |-> [cs[c] EXCEPT !.config_.enable_debugging = FALSE]]

\* two results that differ at most in enable_debugging settings: the same
\* call returned, with the same value, to the same CPU state, and the
\* Contexts hold the same blocks, flags, counters, modes and FPU settings
SameButDebug(r1, r2) ==
    /\ r1.out = r2.out
    /\ r1.cpu = r2.cpu
    /\ r1.pc = r2.pc
    /\ EraseDebug(r1.ctx) = EraseDebug(r2.ctx)

\* C22: enable_debugging has no effect on behaviour: in every state every
\* call returns the same result as in the state with all enable_debugging
\* settings cleared, and the states it leaves again differ only in those
\* settings (so two runs of one sequence of operations on Contexts that
\* differ only in enable_debugging agree after every step).
C22_DebuggingNoEffect ==
    Running =>
            LET alt == EraseDebug(ctx)
            IN  /\ \A a \in live :
                       /\ is_valid(alt[a]) = is_valid(ctx[a])
                       /\ SameButDebug(save(alt, cpu, a), save(ctx, cpu, a))
                       /\ SameButDebug(restore(alt, cpu, a), restore(ctx, cpu, a))
                       /\ SameButDebug(reset(alt, cpu, a), reset(ctx, cpu, a))
                       /\ \A sp \in StackArgs :
                              SameButDebug(set_stack_pointer(alt, cpu, a, sp),
                                           set_stack_pointer(ctx, cpu, a, sp))
                       /\ \A ip \in IpArgs :
                              SameButDebug(set_instruction_pointer(alt, cpu, a, ip),
                                           set_instruction_pointer(ctx, cpu, a, ip))
                       /\ \A b \in live :
                              /\ SameButDebug(swap(alt, cpu, a, b), swap(ctx, cpu, a, b))
                              /\ SameButDebug(move_assign(alt, cpu, a, b),
                                              move_assign(ctx, cpu, a, b))
                       /\ \A d \in Ctx \ live :
                              SameButDebug(move_construct(alt, cpu, d, a),
                                           move_construct(ctx, cpu, d, a))
                /\ \A d \in Ctx \ live : \A config \in ContextConfig :
                       SameButDebug(
                           construct(alt, cpu, d, [config EXCEPT !.enable_debugging = ~@]),
                           construct(ctx, cpu, d, config))

\* a Context with enable_debugging set was saved and resumed, beside a valid
\* Context that has it clear
C22_Witness ==
    /\ last.fn = "save" /\ last.prim \in {"restore", "swap"}
    /\ get_config(ctx[last.self]).enable_debugging
    /\ get_switch_count(ctx[last.self]) = 1
    /\ \E o \in live : /\ ~get_config(ctx[o]).enable_debugging
                        /\ is_valid(ctx[o])

\* the pointers the alignment utilities are given
Pointers == 0..MaxAddr

\* what C23 says of every pointer but the last part on is_stack_aligned of the
\* rounded pointer: rounding down to a multiple of 16, idempotence, fixed
\* points, and the null pointer
RoundsDown(p) ==
    LET q == align_stack_pointer(p)
    IN  IF p = NullPtr
        THEN ~is_stack_aligned(p) /\ q = NullPtr
        ELSE /\ q <= p /\ p - q < StackAlign
             /\ q % StackAlign = 0
             /\ align_stack_pointer(q) = q
             /\ is_stack_aligned(p) => q = p
             /\ ~is_stack_aligned(p) => q # p

\* C23 as stated: for every non-null p, align_stack_pointer(p) is p rounded
\* down to a multiple of 16, is_stack_aligned of it is true, it is idempotent
\* and the identity exactly on aligned pointers; the null pointer is not
\* aligned and is rounded to null.
C23_AlignedAfterRounding ==
    Running =>
        \A p \in Pointers :
            /\ RoundsDown(p)
            /\ p # NullPtr => is_stack_aligned(align_stack_pointer(p))

\* C23, amended: as stated, but is_stack_aligned(align_stack_pointer(p)) is
\* true exactly for p >= 16; a non-null p below 16 is rounded down to the
\* null pointer, which is_stack_aligned rejects.
C23_AlignmentUtilities ==
    Running =>
        \A p \in Pointers :
            /\ RoundsDown(p)
            /\ is_stack_aligned(align_stack_pointer(p)) <=> p >= StackAlign
            /\ (p # NullPtr /\ p < StackAlign) => align_stack_pointer(p) = NullPtr

\* set_stack_pointer rounded a non-null pointer below 16 down to null and
\* stored it in a Context seeded with an entry address
C23_Witness ==
    /\ last.fn = "set_stack_pointer" /\ last.val = TRUE
    /\ get_stack_pointer(ctx[last.self]) = NullPtr
    /\ get_instruction_pointer(ctx[last.self]) = EntryIP

\* a register block the primitive can load: stack pointer non-null and
\* 16-byte aligned, instruction pointer non-null
SoundBlock(regs) ==
    /\ regs.rsp # NullPtr
    /\ regs.rsp % StackAlign = 0
    /\ regs.rip # NullIP

\* C24: the primitive is only ever asked to load (by restore(), or as the
\* target of swap()) a block whose stack pointer is non-null and aligned and
\* whose instruction pointer is non-null; a valid Context holds such a block,
\* also while its counter is 0.
C24_LoadsSoundBlock ==
    Running =>
        \A c \in live :
            /\ is_valid(ctx[c]) => SoundBlock(ctx[c].registers_)
            /\ LET r == restore(ctx, cpu, c)
               IN  /\ r.out.prim = "restore" => SoundBlock(ctx[c].registers_)
                   /\ r.pc # "crashed"
            /\ \A a \in live :
                   LET r == swap(ctx, cpu, a, c)
                   IN  /\ r.out.prim = "swap" => SoundBlock(r.ctx[c].registers_)
                       /\ r.pc # "crashed"

\* a transfer entered seeded code: it loaded the block of a Context made
\* valid by the two setters, whose counter is 0
C24_Witness ==
    /\ last.fn = "entry" /\ last.prim \in {"restore", "swap"}
    /\ \E c \in live :
           /\ is_valid(ctx[c])
           /\ get_switch_count(ctx[c]) = 0
           /\ get_instruction_pointer(ctx[c]) = EntryIP

\* C25: whenever set_stack_pointer(p) returns true (p non-null, the values
\* below 16 included) the stored stack pointer is non-null afterwards, and a
\* Context that was valid before the call is valid after it.
C25_SetterKeepsValid ==
    Running =>
        \A c \in live : \A p \in NonNullStack :
            LET r == set_stack_pointer(ctx, cpu, c, p)
            IN  r.out.val = TRUE =>
                    /\ get_stack_pointer(r.ctx[c]) # NullPtr
                    /\ is_valid(ctx[c]) => is_valid(r.ctx[c])

----------------------------------------------------------------------------
(* A program that changes the FPU control word between its calls: user code *)
(* loads another control word (fldcw), constructs Contexts with and without *)
(* save_fpu, saves, swaps, restores and resets them.                        *)

\* the default control word with rounding control set to truncation
FpucwAlt == FpucwDefault + 3072

\* the register files of this program: one place, two control words
FpuStates ==
    {[gpr |-> 1, rsp |-> 16, fpucw |-> w, mxcsr |-> MxcsrDefault] :
        w \in {FpucwDefault, FpucwAlt}}

InitFpu ==
    /\ ctx = [c \in Ctx |-> NoContext]
    /\ live = {}
    /\ cpu \in FpuStates
    /\ pc = "running"
    /\ last = Returned("start", 0, FALSE)

\* user code loads the FPU control word w
LoadFpucw(w) ==
    /\ pc = "running"
    /\ w # cpu.fpucw
    /\ cpu' = [cpu EXCEPT !.fpucw = w]
    /\ last' = Returned("fldcw", 0, FALSE)
    /\ UNCHANGED <<ctx, live, pc>>

NextFpu ==
    \/ \E c \in Ctx, config \in TestConfigs : Construct(c, config)
    \/ \E c \in Ctx : Save(c)
    \/ \E c \in Ctx : Restore(c)
    \/ \E a, b \in Ctx : Swap(a, b)
    \/ \E c \in Ctx : Reset(c)
    \/ \E w \in {FpucwDefault, FpucwAlt} : LoadFpucw(w)

SpecFpu == InitFpu /\ [][NextFpu]_vars

\* the captures into Context a: a.save(), and a.swap(b) past its checks
CapturesInto(a) ==
    {r \in {save(ctx, cpu, a)} \cup {swap(ctx, cpu, a, b) : b \in live} :
        r.out.prim \in {"save", "swap"} /\ r.pc = "running"}

\* the transfers into Context a from the Contexts cs, the CPU being n, that
\* load a's block as it is: a.restore(), and x.swap(a) for another Context x
LoadsFrom(cs, n, a) ==
    {r \in {restore(cs, n, a)} \cup {swap(cs, n, x, a) : x \in live \ {a}} :
        r.out.prim \in {"restore", "swap"}}

\* C26: when a transfer loads FPU control words from a Context's block, they
\* are the defaults written at construction or reset, or the words captured
\* by the save or swap that wrote the block's stack and instruction pointer:
\* after any capture into a, a transfer into a that loads FPU words loads
\* the defaults or the words the CPU had at that capture.
C26_NoStaleFpuWords ==
    Running =>
        \A a \in live : \A cap \in CapturesInto(a) :
            \A n \in FpuStates : \A t \in LoadsFrom(cap.ctx, n, a) :
                t.out.fpu => t.cpu.fpucw \in {FpucwDefault, cpu.fpucw}

\* C27: for a valid Context a, a.swap(a) passes the checks, captures the
\* caller's state into a and resumes from that same capture: the call
\* returns true to its own caller with the CPU as it was, control goes
\* nowhere else, a is still valid, its counter is greater by exactly 1 and
\* no other Context has changed.
C27_SelfSwap ==
    Running =>
        \A a \in live :
            is_valid(ctx[a]) =>
                LET r == swap(ctx, cpu, a, a)
                    save_fpu == ctx[a].config_.save_fpu
                IN  /\ r.out = Outcome("swap", a, 0, TRUE, "swap", save_fpu)
                    /\ r.pc = "running"
                    /\ r.cpu = cpu
                    /\ r.ctx[a].registers_ =
                           context_store(ctx[a].registers_, cpu, RetSwap(a), save_fpu)
                    /\ is_valid(r.ctx[a])
                    /\ get_switch_count(r.ctx[a]) = get_switch_count(ctx[a]) + 1
                    /\ \A c \in Ctx \ {a} : r.ctx[c] = ctx[c]

\* the only Context of the program has swapped with itself and returned true
C27_Witness ==
    \E a \in Ctx :
        /\ live = {a}
        /\ pc = "running"
        /\ last = Outcome("swap", a, 0, TRUE, "swap", ctx[a].config_.save_fpu)
        /\ is_valid(ctx[a])
        /\ get_switch_count(ctx[a]) = 1
        /\ get_instruction_pointer(ctx[a]) = RetSwap(a)

====
